---- MODULE Spec2Model ----
(***************************************************************************)
(* Model of amtl/experimental/am-atomic.h: the MemoryOrdering tag, the two  *)
(* AtomicValueImpl backends (C++11 <atomic> and GCC __sync intrinsics with  *)
(* Synchronize<Order> fence hooks) and the Atomic<bool, Order> wrapper.     *)
(*                                                                          *)
(* Memory is modelled per atomic as the coherence-ordered sequence of the   *)
(* writes made to value_ (the first one is the constructor's), and every    *)
(* thread has a view: the oldest write of each atomic it may still read.    *)
(* A plain or relaxed access may read any write at or after the view and    *)
(* may place its write anywhere after the view; __sync_synchronize and the  *)
(* seq_cst accesses of <atomic> bring the view up to date with every fence  *)
(* issued before.  An exchange primitive reads a write and places its own   *)
(* directly after it, and nothing is ever placed between the two.           *)
(***************************************************************************)
EXTENDS Integers, Sequences, FiniteSets, TLC

VARIABLES backend, order, wrapper, ctor, prog, mem, pc, ip, arg, value,
          trace, steps, results

vars == <<backend, order, wrapper, ctor, prog, mem, pc, ip, arg, value,
          trace, steps, results>>

\* ---------------------------------------------------------------- bounds
MaxVal == 2
NExchangers == 3
NThreads == 2
MaxOps == 2
MaxInterCalls == 4

Vals == 0..MaxVal

\* ------------------------------------------------- build-time parameters
\* KE_USE_CXX11_ATOMICS selects the <atomic> backend, otherwise __GNUC__
\* selects the fence-based one.
Backends == {"native", "emulated"}

MemoryOrdering == {"Relaxed", "SeqCst"}

\* Synchronize<Order>::hook(): TRUE when the hook issues __sync_synchronize().
Synchronize_NeverFence(o, hook) == FALSE

Synchronize_AlwaysFence(o, hook) == TRUE

Synchronize_NoFenceBeforeLoad(o, hook) == o = "SeqCst" /\ hook # "FenceBeforeLoad"

Synchronize(o, hook) ==
  CASE o = "Relaxed" -> FALSE
    [] o = "SeqCst"  -> TRUE

\* StlOrdering<Order>: TRUE when the std::memory_order is seq_cst.
StlOrdering_AllRelaxed(o, kind) == FALSE

StlOrdering(o, kind) ==
  CASE o = "Relaxed" -> FALSE
    [] o = "SeqCst"  -> TRUE

\* ------------------------------------------------------------- memory
Threads == DOMAIN pc

Atomics == DOMAIN ctor

Max(a, b) == IF a >= b THEN a ELSE b

InsertAt(s, p, m) == SubSeq(s, 1, p - 1) \o <<m>> \o SubSeq(s, p, Len(s))

Shift(v, p) == IF v >= p THEN v + 1 ELSE v

\* Full barrier: the thread catches up with every earlier barrier.
sync_synchronize(m, t) ==
  LET j == [a \in DOMAIN m.hist |-> Max(m.view[t][a], m.scview[a])]
  IN  [m EXCEPT !.view[t] = j, !.scview = j]

\* Positions at which thread t may place a plain write to atomic a.
\* (A faulty variant lets a write go before one the thread has already seen.)
WritePositions_Anywhere(m, t, a) ==
  {p \in 2..(Len(m.hist[a]) + 1) :
      p <= Len(m.hist[a]) => ~m.hist[a][p].rmw}

WritePositions(m, t, a) ==
  {p \in (m.view[t][a] + 1)..(Len(m.hist[a]) + 1) :
      p <= Len(m.hist[a]) => ~m.hist[a][p].rmw}

\* Writes of atomic a that thread t may still read.
ReadPositions(m, t, a) == m.view[t][a]..Len(m.hist[a])

\* Writes an exchange primitive of thread t may read and replace.
\* (A faulty variant is a read followed by a write, with no tie between them.)
ExchangePositions_NotAtomic(m, t, a) == ReadPositions(m, t, a)

ExchangePositions(m, t, a) ==
  {r \in ReadPositions(m, t, a) :
      r < Len(m.hist[a]) => ~m.hist[a][r + 1].rmw}

Place(m, t, a, p, w) ==
  [m EXCEPT !.hist[a] = InsertAt(@, p, w),
            !.view = [u \in DOMAIN m.view |->
                        [m.view[u] EXCEPT ![a] = IF u = t THEN p ELSE Shift(@, p)]],
            !.scview[a] = Shift(@, p)]

\* value_ = v
Store(m, t, a, v, p) == Place(m, t, a, p, [val |-> v, rmw |-> FALSE])

\* T value = value_ : the thread reads write i of atomic a.
Load(m, t, a, i) == [m EXCEPT !.view[t][a] = i]

\* The word a read of write i yields.  (A faulty variant reads the two halves of
\* the word from two successive writes.)
LoadValue_Torn(m, a, i) ==
  IF i > 1 THEN 2 * (m.hist[a][i].val \div 2) + (m.hist[a][i - 1].val % 2)
           ELSE m.hist[a][i].val

LoadValue(m, a, i) == m.hist[a][i].val

\* The atomic swap: reads write r and puts v directly after it.
Swap(m, t, a, v, r) == Place(m, t, a, r + 1, [val |-> v, rmw |-> TRUE])

\* The value an observer that has seen everything reads.
Stored(a) == mem.hist[a][Len(mem.hist[a])].val


\* ------------------------------------------------------------ Atomic<bool>
\* value ? 1 : 0
BoolToInt_AllOnes(b) == IF b THEN -1 ELSE 0

BoolToInt(b) == IF b THEN 1 ELSE 0

\* !!x
IntToBool_Negated(x) == x = 0

IntToBool(x) == x # 0

\* Atomic() : Base(0);  explicit Atomic(bool value) : Base(value ? 1 : 0).
\* c is <<>> for the default constructor and <<b>> for the explicit one.
AtomicBool_DefaultTrue(c) == IF c = <<>> THEN 1 ELSE BoolToInt(c[1])

AtomicBool(c) == IF c = <<>> THEN 0 ELSE BoolToInt(c[1])

\* explicit AtomicValueImpl(T value) : value_(value)
AtomicValueImpl(c) == c[1]

\* The primary template Atomic<T, Order> is declared and not defined in the
\* header; its constructors are taken from the design: the default one holds
\* the zero of T, the explicit one the value given.
AtomicGeneric(c) == IF c = <<>> THEN 0 ELSE c[1]

Construct(w, c) ==
  IF w = "AtomicBool" THEN AtomicBool(c)
  ELSE IF w = "Atomic" THEN AtomicGeneric(c)
  ELSE AtomicValueImpl(c)

\* The argument handed to the core by the wrapper.
CoreArg(w, c) ==
  IF w = "AtomicBool" /\ c.op = "exchange" THEN BoolToInt(c.v) ELSE c.v

\* The value handed back to the caller.
CoreResult(w, op, r) ==
  IF op = "set" THEN <<>>
  ELSE IF w = "AtomicBool" THEN <<IntToBool(r)>> ELSE <<r>>

\* ------------------------------------------------------------- initial
InitMem(w, c, T) ==
  [hist   |-> [a \in DOMAIN c |-> <<[val |-> Construct(w, c[a]), rmw |-> FALSE]>>],
   view   |-> [t \in T |-> [a \in DOMAIN c |-> 1]],
   scview |-> [a \in DOMAIN c |-> 1]]

InitWith(w, c, P) ==
  /\ backend \in Backends
  /\ order \in MemoryOrdering
  /\ wrapper = w
  /\ ctor = c
  /\ prog = P
  /\ mem = InitMem(w, c, DOMAIN P)
  /\ pc = [t \in DOMAIN P |-> "idle"]
  /\ ip = [t \in DOMAIN P |-> 1]
  /\ arg = [t \in DOMAIN P |-> 0]
  /\ value = [t \in DOMAIN P |-> 0]
  /\ trace = [t \in DOMAIN P |-> <<>>]
  /\ steps = [t \in DOMAIN P |-> 0]
  /\ results = [t \in DOMAIN P |-> <<>>]

\* --------------------------------------------------------------- steps
Cur(t) == prog[t][ip[t]]

Entry(b, op) ==
  IF b = "native"
  THEN CASE op = "get" -> "std_load"
         [] op = "set" -> "std_store"
         [] op = "exchange" -> "std_exchange"
  ELSE CASE op = "get" -> "get_FenceBeforeLoad"
         [] op = "set" -> "set_FenceBeforeStore"
         [] op = "exchange" -> "exchange_FenceBeforeStore"

\* Entering operation c: the wrapper converts the argument and calls the core.
Begin(t, c) ==
  /\ pc' = [pc EXCEPT ![t] = Entry(backend, c.op)]
  /\ arg' = [arg EXCEPT ![t] = CoreArg(wrapper, c)]
  /\ trace' = [trace EXCEPT ![t] = <<>>]
  /\ steps' = [steps EXCEPT ![t] = 0]

\* A thread calls the next operation of its program.
Call(t) ==
  /\ pc[t] = "idle"
  /\ ip[t] <= Len(prog[t])
  /\ Begin(t, Cur(t))
  /\ UNCHANGED <<backend, order, wrapper, ctor, prog, mem, ip, value, results>>

\* The operations of the primary template, from the design: the implicit
\* read forwards to get, exchange forwards to exchange, and there is no set.
GenericOps ==
  {[op |-> "get", a |-> a, v |-> 0] : a \in Atomics}
    \cup {[op |-> "exchange", a |-> a, v |-> v] : a \in Atomics, v \in Vals}

\* The operations a caller can name on the public interface.
Ops(w) ==
  IF w = "AtomicBool"
  THEN {[op |-> "get", a |-> a, v |-> FALSE] : a \in Atomics}
         \cup {[op |-> "exchange", a |-> a, v |-> b] : a \in Atomics, b \in BOOLEAN}
  ELSE IF w = "Atomic" THEN GenericOps
  ELSE {[op |-> "get", a |-> a, v |-> 0] : a \in Atomics}
         \cup {[op |-> o, a |-> a, v |-> v] : o \in {"set", "exchange"},
                                             a \in Atomics, v \in Vals}

Calls == UNION {{t} \X (1..Len(prog[t])) : t \in Threads}

\* A thread calls any operation, while the bound on calls allows it.
Invoke(t) ==
  /\ pc[t] = "idle"
  /\ ip[t] = Len(prog[t]) + 1
  /\ Cardinality(Calls) < MaxOps
  /\ \E c \in Ops(wrapper) :
        /\ prog' = [prog EXCEPT ![t] = Append(@, c)]
        /\ Begin(t, c)
  /\ UNCHANGED <<backend, order, wrapper, ctor, mem, ip, value, results>>

\* The operation returns r to its caller.
\* (A faulty variant hands back the argument instead of the result.)
Finish_ReturnsArg(t, r) ==
  /\ results' = [results EXCEPT ![t] =
                   Append(@, [op |-> Cur(t).op, a |-> Cur(t).a, v |-> Cur(t).v,
                              ret |-> CoreResult(wrapper, Cur(t).op, arg[t])])]
  /\ ip' = [ip EXCEPT ![t] = @ + 1]
  /\ pc' = [pc EXCEPT ![t] = "idle"]

Finish(t, r) ==
  /\ results' = [results EXCEPT ![t] =
                   Append(@, [op |-> Cur(t).op, a |-> Cur(t).a, v |-> Cur(t).v,
                              ret |-> CoreResult(wrapper, Cur(t).op, r)])]
  /\ ip' = [ip EXCEPT ![t] = @ + 1]
  /\ pc' = [pc EXCEPT ![t] = "idle"]

\* One of the four hooks of Synchronize<Order>.
Hook(t, hook) ==
  IF Synchronize(order, hook)
  THEN /\ mem' = sync_synchronize(mem, t)
       /\ trace' = [trace EXCEPT ![t] = Append(@, "fence")]
  ELSE UNCHANGED <<mem, trace>>

Step(t) == steps' = [steps EXCEPT ![t] = @ + 1]

\* set: Model::FenceBeforeStore();   exchange: Model::FenceBeforeStore();
FenceBeforeStore(t) ==
  /\ pc[t] \in {"set_FenceBeforeStore", "exchange_FenceBeforeStore"}
  /\ Hook(t, "FenceBeforeStore")
  /\ pc' = [pc EXCEPT ![t] = IF pc[t] = "set_FenceBeforeStore"
                             THEN "set_write" ELSE "exchange_tas"]
  /\ Step(t)
  /\ UNCHANGED <<backend, order, wrapper, ctor, prog, ip, arg, value, results>>

\* set: value_ = value;
PlainWrite(t) ==
  /\ pc[t] = "set_write"
  /\ \E p \in WritePositions(mem, t, Cur(t).a) :
        mem' = Store(mem, t, Cur(t).a, arg[t], p)
  /\ trace' = [trace EXCEPT ![t] = Append(@, "write")]
  /\ pc' = [pc EXCEPT ![t] = "set_FenceAfterStore"]
  /\ Step(t)
  /\ UNCHANGED <<backend, order, wrapper, ctor, prog, ip, arg, value, results>>

\* set: Model::FenceAfterStore();  and return
FenceAfterStore(t) ==
  /\ pc[t] = "set_FenceAfterStore"
  /\ Hook(t, "FenceAfterStore")
  /\ Finish(t, arg[t])
  /\ Step(t)
  /\ UNCHANGED <<backend, order, wrapper, ctor, prog, arg, value>>

\* get: Model::FenceBeforeLoad();
FenceBeforeLoad(t) ==
  /\ pc[t] = "get_FenceBeforeLoad"
  /\ Hook(t, "FenceBeforeLoad")
  /\ pc' = [pc EXCEPT ![t] = "get_read"]
  /\ Step(t)
  /\ UNCHANGED <<backend, order, wrapper, ctor, prog, ip, arg, value, results>>

\* get: T value = value_;
PlainRead(t) ==
  /\ pc[t] = "get_read"
  /\ \E i \in ReadPositions(mem, t, Cur(t).a) :
        /\ mem' = Load(mem, t, Cur(t).a, i)
        /\ value' = [value EXCEPT ![t] = LoadValue(mem, Cur(t).a, i)]
  /\ trace' = [trace EXCEPT ![t] = Append(@, "read")]
  /\ pc' = [pc EXCEPT ![t] = "get_FenceAfterLoad"]
  /\ Step(t)
  /\ UNCHANGED <<backend, order, wrapper, ctor, prog, ip, arg, results>>

\* get: Model::FenceAfterLoad(); return value;
FenceAfterLoad(t) ==
  /\ pc[t] = "get_FenceAfterLoad"
  /\ Hook(t, "FenceAfterLoad")
  /\ Finish(t, value[t])
  /\ Step(t)
  /\ UNCHANGED <<backend, order, wrapper, ctor, prog, arg, value>>

\* exchange: return __sync_lock_test_and_set(&value_, newValue);
\* (A faulty variant is a swap that waits while another thread is inside set.)
LockTestAndSet_Spin(t) ==
  /\ pc[t] = "exchange_tas"
  /\ \A u \in Threads \ {t} : pc[u] # "set_FenceAfterStore"
  /\ \E r \in ExchangePositions(mem, t, Cur(t).a) :
        /\ mem' = Swap(mem, t, Cur(t).a, arg[t], r)
        /\ value' = [value EXCEPT ![t] = mem.hist[Cur(t).a][r].val]
        /\ Finish(t, mem.hist[Cur(t).a][r].val)
  /\ trace' = [trace EXCEPT ![t] = Append(@, "xchg")]
  /\ Step(t)
  /\ UNCHANGED <<backend, order, wrapper, ctor, prog, arg>>

LockTestAndSet(t) ==
  /\ pc[t] = "exchange_tas"
  /\ \E r \in ExchangePositions(mem, t, Cur(t).a) :
        /\ mem' = Swap(mem, t, Cur(t).a, arg[t], r)
        /\ value' = [value EXCEPT ![t] = mem.hist[Cur(t).a][r].val]
        /\ Finish(t, mem.hist[Cur(t).a][r].val)
  /\ trace' = [trace EXCEPT ![t] = Append(@, "xchg")]
  /\ Step(t)
  /\ UNCHANGED <<backend, order, wrapper, ctor, prog, arg>>

\* The memory before and after a <atomic> access of the given kind.
StdFence(m, t, kind) ==
  IF StlOrdering(order, kind) THEN sync_synchronize(m, t) ELSE m

\* return value_.exchange(newValue, StlOrder::ReadModifyWrite);
StdExchange(t) ==
  /\ pc[t] = "std_exchange"
  /\ LET m1 == StdFence(mem, t, "ReadModifyWrite") IN
     \E r \in ExchangePositions(m1, t, Cur(t).a) :
        /\ mem' = StdFence(Swap(m1, t, Cur(t).a, arg[t], r), t, "ReadModifyWrite")
        /\ value' = [value EXCEPT ![t] = m1.hist[Cur(t).a][r].val]
        /\ Finish(t, m1.hist[Cur(t).a][r].val)
  /\ trace' = [trace EXCEPT ![t] = Append(@, "atomic_exchange")]
  /\ Step(t)
  /\ UNCHANGED <<backend, order, wrapper, ctor, prog, arg>>

\* return value_.load(StlOrder::Load);
StdLoad(t) ==
  /\ pc[t] = "std_load"
  /\ LET m1 == StdFence(mem, t, "Load") IN
     \E i \in ReadPositions(m1, t, Cur(t).a) :
        /\ mem' = StdFence(Load(m1, t, Cur(t).a, i), t, "Load")
        /\ value' = [value EXCEPT ![t] = LoadValue(m1, Cur(t).a, i)]
        /\ Finish(t, LoadValue(m1, Cur(t).a, i))
  /\ trace' = [trace EXCEPT ![t] = Append(@, "atomic_load")]
  /\ Step(t)
  /\ UNCHANGED <<backend, order, wrapper, ctor, prog, arg>>

\* value_.store(value, StlOrder::Store);
StdStore(t) ==
  /\ pc[t] = "std_store"
  /\ LET m1 == StdFence(mem, t, "Store") IN
     \E p \in WritePositions(m1, t, Cur(t).a) :
        mem' = StdFence(Store(m1, t, Cur(t).a, arg[t], p), t, "Store")
  /\ Finish(t, arg[t])
  /\ trace' = [trace EXCEPT ![t] = Append(@, "atomic_store")]
  /\ Step(t)
  /\ UNCHANGED <<backend, order, wrapper, ctor, prog, arg, value>>

\* -------------------------------------------------------- specifications
RangeOf(f) == {f[x] : x \in DOMAIN f}

Injections(S, T) == {f \in [S -> T] : \A x, y \in S : x # y => f[x] # f[y]}

\* N threads each exchange one distinct value, different from the initial
\* one, on one AtomicValueImpl.
ExchangeVals == 0..NExchangers

InitExchange ==
  \E v0 \in ExchangeVals :
    \E f \in Injections(1..NExchangers, ExchangeVals \ {v0}) :
      InitWith("AtomicValueImpl", [a \in {"X"} |-> <<v0>>],
               [t \in 1..NExchangers |-> <<[op |-> "exchange", a |-> "X", v |-> f[t]]>>])

NextExchange ==
  \E t \in Threads :
    \/ Call(t)
    \/ FenceBeforeStore(t)
    \/ LockTestAndSet(t)
    \/ StdExchange(t)

SpecExchange == InitExchange /\ [][NextExchange]_vars

\* Store buffering: thread 1 does X.set(new); Y.get(), thread 2 does
\* Y.set(new); X.get(), both atomics constructed with the old value.
InitSB ==
  \E old \in Vals :
    \E new \in Vals \ {old} :
      InitWith("AtomicValueImpl", [a \in {"X", "Y"} |-> <<old>>],
               <<  <<[op |-> "set", a |-> "X", v |-> new], [op |-> "get", a |-> "Y", v |-> 0]>>,
                   <<[op |-> "set", a |-> "Y", v |-> new], [op |-> "get", a |-> "X", v |-> 0]>>  >>)

NextSB ==
  \E t \in Threads :
    \/ Call(t)
    \/ FenceBeforeStore(t)
    \/ PlainWrite(t)
    \/ FenceAfterStore(t)
    \/ FenceBeforeLoad(t)
    \/ PlainRead(t)
    \/ FenceAfterLoad(t)
    \/ StdLoad(t)
    \/ StdStore(t)

SpecSB == InitSB /\ [][NextSB]_vars

\* Any threads calling get, set and exchange on one AtomicValueImpl.
InitCore ==
  \E v0 \in Vals :
    InitWith("AtomicValueImpl", [a \in {"X"} |-> <<v0>>], [t \in 1..NThreads |-> <<>>])

ThreadStep(t) ==
  \/ FenceBeforeStore(t)
  \/ PlainWrite(t)
  \/ FenceAfterStore(t)
  \/ FenceBeforeLoad(t)
  \/ PlainRead(t)
  \/ FenceAfterLoad(t)
  \/ LockTestAndSet(t)
  \/ StdExchange(t)
  \/ StdLoad(t)
  \/ StdStore(t)

NextCore == \E t \in Threads : Invoke(t) \/ ThreadStep(t)

SpecCore == InitCore /\ [][NextCore]_vars

\* Any threads reading and exchanging one Atomic<bool, Order>.
InitBool ==
  \E c \in {<<>>, <<FALSE>>, <<TRUE>>} :
    InitWith("AtomicBool", [a \in {"X"} |-> c], [t \in 1..NThreads |-> <<>>])

NextBool ==
  \E t \in Threads :
    \/ Invoke(t)
    \/ FenceBeforeStore(t)
    \/ LockTestAndSet(t)
    \/ FenceBeforeLoad(t)
    \/ PlainRead(t)
    \/ FenceAfterLoad(t)
    \/ StdExchange(t)
    \/ StdLoad(t)

SpecBool == InitBool /\ [][NextBool]_vars

\* Any threads reading and exchanging one Atomic<T, Order>, T not bool.
InitGeneric ==
  \E c \in {<<>>} \cup {<<v>> : v \in Vals} :
    InitWith("Atomic", [a \in {"X"} |-> c], [t \in 1..NThreads |-> <<>>])

NextGeneric ==
  \E t \in Threads :
    \/ Invoke(t)
    \/ FenceBeforeStore(t)
    \/ LockTestAndSet(t)
    \/ FenceBeforeLoad(t)
    \/ PlainRead(t)
    \/ FenceAfterLoad(t)
    \/ StdExchange(t)
    \/ StdLoad(t)

SpecGeneric == InitGeneric /\ [][NextGeneric]_vars

\* Two threads calling get, set and exchange on two SeqCst AtomicValueImpl;
\* each thread writes its own number, both atomics are constructed with 0.
InterOps(t) ==
  {[op |-> "get", a |-> a, v |-> 0] : a \in {"X", "Y"}}
    \cup {[op |-> o, a |-> a, v |-> t] : o \in {"set", "exchange"}, a \in {"X", "Y"}}

InvokeInter(t) ==
  /\ pc[t] = "idle"
  /\ ip[t] = Len(prog[t]) + 1
  /\ Cardinality(Calls) < MaxInterCalls
  /\ \E c \in InterOps(t) :
        /\ prog' = [prog EXCEPT ![t] = Append(@, c)]
        /\ Begin(t, c)
  /\ UNCHANGED <<backend, order, wrapper, ctor, mem, ip, value, results>>

InitInter ==
  /\ InitWith("AtomicValueImpl", [a \in {"X", "Y"} |-> <<0>>], [t \in 1..2 |-> <<>>])
  /\ order = "SeqCst"

NextInter == \E t \in Threads : InvokeInter(t) \/ ThreadStep(t)

SpecInter == InitInter /\ [][NextInter]_vars

\* Store buffering through Atomic<bool>, exchange being the only write:
\* thread 1 does X.exchange(true) and reads Y, thread 2 does Y.exchange(true)
\* and reads X, both flags constructed false.
InitSBX ==
  \E c \in {<<>>, <<FALSE>>} :
    InitWith("AtomicBool", [a \in {"X", "Y"} |-> c],
             <<  <<[op |-> "exchange", a |-> "X", v |-> TRUE], [op |-> "get", a |-> "Y", v |-> FALSE]>>,
                 <<[op |-> "exchange", a |-> "Y", v |-> TRUE], [op |-> "get", a |-> "X", v |-> FALSE]>>  >>)

NextSBX ==
  \E t \in Threads :
    \/ Call(t)
    \/ FenceBeforeStore(t)
    \/ LockTestAndSet(t)
    \/ FenceBeforeLoad(t)
    \/ PlainRead(t)
    \/ FenceAfterLoad(t)
    \/ StdExchange(t)
    \/ StdLoad(t)

SpecSBX == InitSBX /\ [][NextSBX]_vars

\* One Atomic<bool>: thread 1 exchanges a boolean in and reads twice,
\* thread 2 reads.
InitFrame ==
  \E c \in {<<>>, <<FALSE>>, <<TRUE>>} :
    \E b \in BOOLEAN :
      InitWith("AtomicBool", [a \in {"X"} |-> c],
               <<  <<[op |-> "exchange", a |-> "X", v |-> b], [op |-> "get", a |-> "X", v |-> FALSE],
                     [op |-> "get", a |-> "X", v |-> FALSE]>>,
                   <<[op |-> "get", a |-> "X", v |-> FALSE]>>  >>)

NextFrame ==
  \E t \in Threads :
    \/ Call(t)
    \/ FenceBeforeStore(t)
    \/ LockTestAndSet(t)
    \/ FenceBeforeLoad(t)
    \/ PlainRead(t)
    \/ FenceAfterLoad(t)
    \/ StdExchange(t)
    \/ StdLoad(t)

SpecFrame == InitFrame /\ [][NextFrame]_vars

Spec == SpecCore

\* ---------------------------------------------------------- properties
Done == \A t \in Threads : pc[t] = "idle" /\ ip[t] > Len(prog[t])

\* The calls of thread t that have returned.
Returned(t) == 1..Len(results[t])

\* The value an operation returned.
Ret(t, k) == results[t][k].ret[1]

\* C1. Exchange atomicity: when every thread has exchanged its own distinct
\* value once, the values returned are pairwise distinct, each is the
\* initial value or a value exchanged by another thread, the returned
\* values together with the final stored value are exactly the initial value
\* and the exchanged values with none lost or repeated, and the final stored
\* value is one of the exchanged values.
ExchangeAtomicity ==
  Done =>
    LET v0 == AtomicValueImpl(ctor["X"])
        exchanged == {prog[t][1].v : t \in Threads}
        returned == {Ret(t, 1) : t \in Threads}
    IN  /\ \A t, u \in Threads : t # u => Ret(t, 1) # Ret(u, 1)
        /\ \A t \in Threads : Ret(t, 1) \in {v0} \cup {prog[u][1].v : u \in Threads \ {t}}
        /\ returned \cup {Stored("X")} = {v0} \cup exchanged
        /\ Stored("X") \notin returned
        /\ Stored("X") \in exchanged

ExchangeAtomicityWitness ==
  /\ Done
  /\ wrapper = "AtomicValueImpl" /\ "Y" \notin Atomics
  /\ backend = "emulated" /\ order = "Relaxed"
  /\ Cardinality(Threads) = NExchangers
  /\ Ret(1, 1) = prog[2][1].v
  /\ Stored("X") = prog[1][1].v

\* C2. SeqCst total order: in the store-buffering program under SeqCst, in
\* either backend, the two threads never both read the old value.
SBOld == AtomicValueImpl(ctor["X"])

SBBothOld ==
  /\ Done
  /\ results[1][2].ret = <<SBOld>>
  /\ results[2][2].ret = <<SBOld>>

SeqCstTotalOrder == order = "SeqCst" => ~SBBothOld

SeqCstTotalOrderWitness ==
  /\ Done
  /\ order = "SeqCst" /\ backend = "emulated"
  /\ prog[1][2].a = "Y"
  /\ results[1][2].ret = <<SBOld>>
  /\ results[2][2].ret = <<prog[1][1].v>>

\* The arguments of the set and exchange calls whose write to atomic a has
\* been performed: the calls that have returned, and the set calls whose
\* write is done and whose closing fence hook is still to run.
PerformedWrites(a) ==
  {prog[c[1]][c[2]].v : c \in
     {d \in Calls : /\ prog[d[1]][d[2]].a = a
                    /\ prog[d[1]][d[2]].op \in {"set", "exchange"}
                    /\ \/ d[2] < ip[d[1]]
                       \/ pc[d[1]] = "set_FenceAfterStore"}}

GetsReturned == {c \in Calls : c[2] \in Returned(c[1]) /\ prog[c[1]][c[2]].op = "get"}

\* C3. No torn reads: every value get returns is the initial value or the
\* whole argument of a set or exchange on that atomic whose write has been
\* performed; so get never returns a value outside the initial value and the
\* values the writers use.
NoTornReads ==
  \A c \in GetsReturned :
    Ret(c[1], c[2]) \in {AtomicValueImpl(ctor[prog[c[1]][c[2]].a])}
                          \cup PerformedWrites(prog[c[1]][c[2]].a)

NoTornReadsWitness ==
  /\ wrapper = "AtomicValueImpl" /\ "Y" \notin Atomics
  /\ backend = "emulated" /\ order = "SeqCst"
  /\ Len(prog[1]) = 1 /\ prog[1][1].op = "set" /\ pc[1] = "idle"
  /\ prog[1][1].v # AtomicValueImpl(ctor["X"])
  /\ Len(results[2]) = 1 /\ results[2][1].op = "get"
  /\ results[2][1].ret = <<prog[1][1].v>>

\* C4. Boolean encoding: every value the integer under an Atomic<bool> holds,
\* from its construction on and through every exchange, is 0 or 1.
BoolEncoding ==
  wrapper = "AtomicBool" =>
    \A a \in Atomics : \A i \in 1..Len(mem.hist[a]) : mem.hist[a][i].val \in {0, 1}

BoolEncodingWitness ==
  /\ wrapper = "AtomicBool"
  /\ ctor["X"] = <<>>
  /\ Len(mem.hist["X"]) = 3
  /\ mem.hist["X"][2].val = 1
  /\ Stored("X") = 0

\* The thread that made every call so far, if there is one.
OnlyCaller(t) == \A u \in Threads \ {t} : prog[u] = <<>>

\* The boolean an instance holds before call k of its only caller.
RECURSIVE Holding(_, _)
Holding(t, k) ==
  IF k = 1 THEN ctor["X"][1]
  ELSE IF prog[t][k - 1].op = "exchange" THEN prog[t][k - 1].v
  ELSE Holding(t, k - 1)

\* C5. Boolean round trip: on an Atomic<bool> constructed with b and used by
\* one caller, a read returns b while there has been no exchange, exchange(b)
\* on an instance holding a returns a, and a read after it returns b.
BoolRoundTrip ==
  \A t \in Threads :
    (wrapper = "AtomicBool" /\ ctor["X"] # <<>> /\ OnlyCaller(t)) =>
      \A k \in Returned(t) : results[t][k].ret = <<Holding(t, k)>>

BoolRoundTripWitness ==
  /\ wrapper = "AtomicBool" /\ ctor["X"] = <<FALSE>> /\ OnlyCaller(1)
  /\ Len(results[1]) = 2
  /\ results[1][1].op = "exchange" /\ results[1][1].v = TRUE
  /\ results[1][1].ret = <<FALSE>>
  /\ results[1][2].op = "get" /\ results[1][2].ret = <<TRUE>>

\* The call thread t made last, once it has returned.
LastReturned(t) == prog[t][ip[t] - 1]

HasReturned(t, op) == pc[t] = "idle" /\ ip[t] > 1 /\ LastReturned(t).op = op

FencePlacement ==
  \A t \in Threads :
    backend = "emulated" =>
      LET F == IF order = "SeqCst" THEN <<"fence">> ELSE <<>> IN
      /\ pc[t] = "get_read" => trace[t] = F
      /\ pc[t] = "get_FenceAfterLoad" => trace[t] = F \o <<"read">>
      /\ HasReturned(t, "get") => trace[t] = F \o <<"read">> \o F
      /\ pc[t] = "set_write" => trace[t] = F
      /\ pc[t] = "set_FenceAfterStore" => trace[t] = F \o <<"write">>
      /\ HasReturned(t, "set") => trace[t] = F \o <<"write">> \o F

FencePlacementWitness ==
  /\ backend = "emulated" /\ order = "SeqCst"
  /\ "Y" \in Atomics
  /\ HasReturned(1, "get") /\ trace[1] = <<"fence", "read", "fence">>
  /\ HasReturned(2, "set") /\ trace[2] = <<"fence", "write", "fence">>

\* C8. Non-blocking: a thread inside get, set or exchange can always take its
\* next step, whatever the positions of the other threads, and the call
\* returns within three of its own steps.
NonBlocking ==
  \A t \in Threads :
    /\ steps[t] <= 3
    /\ pc[t] # "idle" => (steps[t] < 3 /\ ENABLED ThreadStep(t))

NonBlockingWitness ==
  /\ wrapper = "AtomicValueImpl" /\ "Y" \notin Atomics
  /\ backend = "emulated"
  /\ pc[2] = "set_FenceAfterStore"
  /\ HasReturned(1, "exchange") /\ steps[1] = 2
  /\ results[1][1].ret = <<prog[2][1].v>>

\* C9. Relaxed ordering: in the store-buffering program under Relaxed no get
\* and no set issues a fence, a thread about to read can still read the old
\* value whatever the other thread has done, and so both threads can read
\* the old value.
RelaxedNoOrdering ==
  order = "Relaxed" =>
    /\ \A t \in Threads : \A i \in 1..Len(trace[t]) : trace[t][i] # "fence"
    /\ \A a \in Atomics : mem.scview[a] = 1
    /\ \A t \in Threads :
         pc[t] \in {"get_read", "std_load"} =>
           \E i \in ReadPositions(mem, t, Cur(t).a) : LoadValue(mem, Cur(t).a, i) = SBOld

RelaxedNoOrderingWitness ==
  /\ order = "Relaxed" /\ backend = "emulated"
  /\ prog[2][2].a = "X"
  /\ SBBothOld
  /\ Stored("X") = prog[1][1].v /\ Stored("Y") = prog[2][1].v

\* C10. Default construction: an Atomic<bool> built by the default
\* constructor holds 0; its reads return false as long as no exchange(true)
\* has been called, and the first exchange made on it returns false.
DefaultConstruction ==
  (wrapper = "AtomicBool" /\ ctor["X"] = <<>>) =>
    /\ mem.hist["X"][1].val = 0
    /\ (\A c \in Calls : ~(prog[c[1]][c[2]].op = "exchange" /\ prog[c[1]][c[2]].v))
         => \A c \in GetsReturned : results[c[1]][c[2]].ret = <<FALSE>>
    /\ Len(mem.hist["X"]) >= 2 =>
         \E t \in Threads : \E k \in Returned(t) :
            results[t][k].op = "exchange" /\ results[t][k].ret = <<FALSE>>

DefaultConstructionWitness ==
  /\ wrapper = "AtomicBool" /\ ctor["X"] = <<>>
  /\ Len(results[1]) = 2
  /\ results[1][1].op = "get" /\ results[1][1].ret = <<FALSE>>
  /\ results[1][2].op = "exchange" /\ results[1][2].v = TRUE
  /\ results[1][2].ret = <<FALSE>>

\* The value an Atomic<T> holds before call k of its only caller.
RECURSIVE HoldingT(_, _)
HoldingT(t, k) ==
  IF k = 1 THEN (IF ctor["X"] = <<>> THEN 0 ELSE ctor["X"][1])
  ELSE IF prog[t][k - 1].op = "exchange" THEN prog[t][k - 1].v
  ELSE HoldingT(t, k - 1)

RECURSIVE HoldingCore(_, _)
HoldingCore(t, k) ==
  IF k = 1 THEN AtomicValueImpl(ctor["X"])
  ELSE IF prog[t][k - 1].op \in {"set", "exchange"} THEN prog[t][k - 1].v
  ELSE HoldingCore(t, k - 1)

\* C13. Sequential semantics of the core: when one thread makes all the
\* calls on an AtomicValueImpl, under either ordering, every get returns the
\* argument of the latest set or exchange before it (the constructor's value
\* if there is none), every exchange returns what a get in its place would
\* have returned, and after set(v) or exchange(v) the stored value is v.
SequentialCore ==
  \A t \in Threads :
    (wrapper = "AtomicValueImpl" /\ OnlyCaller(t)) =>
      /\ \A k \in Returned(t) :
           results[t][k].op \in {"get", "exchange"} =>
             results[t][k].ret = <<HoldingCore(t, k)>>
      /\ pc[t] = "idle" => Stored("X") = HoldingCore(t, ip[t])

SequentialCoreWitness ==
  /\ wrapper = "AtomicValueImpl" /\ "Y" \notin Atomics /\ OnlyCaller(1)
  /\ backend = "emulated" /\ order = "Relaxed"
  /\ pc[1] = "idle" /\ Len(results[1]) = 2
  /\ results[1][1].op = "set" /\ results[1][1].v # AtomicValueImpl(ctor["X"])
  /\ results[1][2].op = "exchange" /\ results[1][2].ret = <<results[1][1].v>>
  /\ results[1][2].v # results[1][1].v
  /\ Stored("X") = results[1][2].v

AllIdle == \A t \in Threads : pc[t] = "idle"

\* The outcome of the calls from position i[t] of each thread on, is the one
\* some order of whole operations produces from the stored values reg.
RECURSIVE Explained(_, _)
Explained(i, reg) ==
  IF \A t \in Threads : i[t] > Len(results[t])
  THEN \A a \in Atomics : reg[a] = Stored(a)
  ELSE \E t \in {u \in Threads : i[u] <= Len(results[u])} :
         LET c == results[t][i[t]] IN
         /\ c.op \in {"get", "exchange"} => c.ret = <<reg[c.a]>>
         /\ Explained([i EXCEPT ![t] = @ + 1],
                      IF c.op = "get" THEN reg ELSE [reg EXCEPT ![c.a] = c.v])

\* C14. Backend interchangeability under SeqCst: whenever the calls made on
\* the SeqCst atomics have all returned, the values they returned and the
\* values finally stored are those of some single interleaving of whole
\* operations, in the fence-based backend as in the native one.
BackendsInterchangeable ==
  (order = "SeqCst" /\ AllIdle) =>
    Explained([t \in Threads |-> 1], [a \in Atomics |-> AtomicValueImpl(ctor[a])])

BackendsInterchangeableWitness ==
  /\ order = "SeqCst" /\ backend = "emulated" /\ AllIdle
  /\ Len(results[1]) = 2 /\ Len(results[2]) = 2
  /\ results[1][1].op = "set" /\ results[1][1].a = "X"
  /\ results[1][2].op = "get" /\ results[1][2].a = "Y" /\ results[1][2].ret = <<0>>
  /\ results[2][1].op = "exchange" /\ results[2][1].a = "Y"
  /\ results[2][2].op = "get" /\ results[2][2].a = "X" /\ results[2][2].ret = <<1>>

SBXBothFalse ==
  /\ Done
  /\ results[1][2].ret = <<FALSE>>
  /\ results[2][2].ret = <<FALSE>>

\* C15. SeqCst ordering through Atomic<bool>: in the program where each
\* thread exchanges true into its own flag and then reads the other flag,
\* under SeqCst in the fence-based backend (fence before the exchange
\* primitive, none after it) the two reads never both return false.
SeqCstExchangeOrder ==
  (order = "SeqCst" /\ backend = "emulated") => ~SBXBothFalse

SeqCstExchangeOrderWitness ==
  /\ order = "SeqCst" /\ backend = "emulated"
  /\ wrapper = "AtomicBool" /\ "Y" \in Atomics
  /\ Done
  /\ trace[1] = <<"fence", "read", "fence">>
  /\ results[1][1].ret = <<FALSE>> /\ results[2][1].ret = <<FALSE>>
  /\ results[1][2].ret = <<FALSE>>
  /\ results[2][2].ret = <<TRUE>>

\* Thread t performs the read of its current call in this step.
Reads(t) == pc[t] \in {"get_read", "std_load"} /\ pc'[t] # pc[t]

\* Thread t performs the swap of its current call in this step.
Swaps(t) == pc[t] \in {"exchange_tas", "std_exchange"} /\ pc'[t] # pc[t]

\* The exchanges thread u made on atomic a before its call k.
ExchangesBefore(u, k, a) ==
  {j \in 1..(k - 1) : prog[u][j].op = "exchange" /\ prog[u][j].a = a}

\* Call k of thread u is a read of atomic a that has returned, and every
\* exchange that has taken effect on a so far did so before that read.
ReadSinceLastExchange(u, k, a) ==
  /\ k \in Returned(u)
  /\ results[u][k].op = "get" /\ results[u][k].a = a
  /\ Len(mem.hist[a]) - 1 = Cardinality(ExchangesBefore(u, k, a))

\* A read performed now returns what every read returned since the last
\* exchange took effect has returned.
ReadsAgree ==
  \A t \in Threads :
    Reads(t) =>
      \A u \in Threads : \A k \in Returned(u) :
        ReadSinceLastExchange(u, k, Cur(t).a) =>
          <<IntToBool(value'[t])>> = results[u][k].ret

\* The stored values change only in a step that performs a swap, and a step
\* that performs a read leaves them as they are.
OnlyExchangeWrites ==
  /\ mem'.hist # mem.hist => \E t \in Threads : Swaps(t)
  /\ \A t \in Threads : Reads(t) => mem'.hist = mem.hist

\* C16 as stated. Frame of Atomic<bool>: a read never changes the stored
\* value, exchange alone changes it, and any two reads between which no
\* exchange takes effect return the same boolean.
FrameAndReadsAgree == [][OnlyExchangeWrites /\ ReadsAgree]_vars

\* No thread but t has made a call.
NoOtherCaller(t) == \A u \in Threads \ {t} : ip[u] = 1 /\ pc[u] = "idle"

\* C16 as amended. Frame of Atomic<bool>: a read never changes the stored
\* value and exchange alone changes it; two reads between which no exchange
\* takes effect return the same boolean when one thread makes all the calls,
\* and when every operation is one sequentially consistent step (native
\* backend under SeqCst).  Otherwise a read made by another thread may still
\* return the boolean stored before an exchange that has taken effect.
FrameEffect ==
  [][/\ OnlyExchangeWrites
     /\ (backend = "native" /\ order = "SeqCst") => ReadsAgree
     /\ \A t \in Threads : (Reads(t) /\ NoOtherCaller(t)) => ReadsAgree]_vars

FrameEffectWitness ==
  /\ wrapper = "AtomicBool" /\ "Y" \notin Atomics
  /\ backend = "native" /\ order = "SeqCst"
  /\ ctor["X"] = <<FALSE>>
  /\ Len(mem.hist["X"]) = 2 /\ Stored("X") = 1
  /\ Len(results[1]) = 2 /\ results[1][2].op = "get" /\ results[1][2].ret = <<TRUE>>
  /\ Len(results[2]) = 1 /\ results[2][1].ret = <<TRUE>>

====
